---- MODULE Spec2Model ----
(***************************************************************************)
(* Model of HardwareStoreLeadScraper (src/Scrapper_PreprocessingTool.py):  *)
(* page selection, page fetching, signal extraction, scoring, the          *)
(* per-company pipeline and the thread-pool batch driver.                  *)
(*                                                                         *)
(* Python dicts are functions from key strings to values, lists are        *)
(* sequences, None is the string "None".  A text is a sequence of words    *)
(* (its length is the number of words); a regular expression is the        *)
(* sequence of the alternatives of the vocabulary it matches.              *)
(***************************************************************************)
EXTENDS Integers, Sequences, FiniteSets, TLC

VARIABLES
    fn,                  \* the function the specification exercises
    arg,                 \* its arguments, as the call leaves them
    arg0,                \* its arguments, as the caller passed them
    ret,                 \* the values it returned so far, oldest first
    future,              \* future_to_company: per submitted task, its state and outcome
    enhanced_companies,  \* scrape_multiple_companies: the list being returned
    bpc,                 \* scrape_multiple_companies: where the call stands
    finished             \* task indices in the order the workers completed them

vars == <<fn, arg, arg0, ret, future, enhanced_companies, bpc, finished>>

unit_vars == <<fn, arg, arg0, ret>>
batch_vars == <<future, enhanced_companies, bpc, finished>>

(***************************************************************************)
(* Bounds of the model.                                                    *)
(***************************************************************************)
MaxListLen == 4          \* longest category list handed to the scorer alone
MaxRecomputations == 2   \* times the scorer is called again on one profile

None == "None"

Min(a, b) == IF a < b THEN a ELSE b

\* d[k] = v, as a Python dict assignment: the key is added when absent.
Put(d, k, v) == [kk \in DOMAIN d \cup {k} |-> IF kk = k THEN v ELSE d[kk]]

\* The batch driver's variables while a unit specification runs.
BatchIdle ==
    /\ future = <<>>
    /\ enhanced_companies = <<>>
    /\ bpc = "idle"
    /\ finished = <<>>

(***************************************************************************)
(* The intelligence profile.                                               *)
(***************************************************************************)
WeightedCategories ==
    {"infrastructure_needs", "growth_indicators", "technical_pain_points",
     "urgency_signals", "budget_indicators"}

UnweightedCategories ==
    {"decision_makers", "tech_stack", "hardware_opportunities", "company_scale"}

ContextCategories == {"business_context", "industry_context"}

\* scrape_company_website, lines 160-174: the profile a company starts with.
EmptyIntelligence ==
    [infrastructure_needs |-> <<>>,
     growth_indicators |-> <<>>,
     technical_pain_points |-> <<>>,
     decision_makers |-> <<>>,
     tech_stack |-> <<>>,
     hardware_opportunities |-> <<>>,
     urgency_signals |-> <<>>,
     company_scale |-> <<>>,
     budget_indicators |-> <<>>,
     scraping_success |-> FALSE,
     scraping_error |-> None,
     content_preview |-> <<>>,
     hardware_readiness_score |-> 0]

(***************************************************************************)
(* _calculate_hardware_readiness_score                                     *)
(***************************************************************************)
\* A scorer that forgot the caps: every match counts.
calculate_hardware_readiness_score_uncapped(company) ==
    LET intelligence == company["hardware_intelligence"]
    IN  Len(intelligence["infrastructure_needs"]) * 10
        + Len(intelligence["growth_indicators"]) * 8
        + Len(intelligence["technical_pain_points"]) * 7
        + Len(intelligence["urgency_signals"]) * 15
        + Len(intelligence["budget_indicators"]) * 10

\* A scorer that also counts the decision makers, 8 points each.
calculate_hardware_readiness_score_decision_makers(company) ==
    LET intelligence == company["hardware_intelligence"]
    IN  Min(100,
            Min(30, Len(intelligence["infrastructure_needs"]) * 10)
            + Min(25, (Len(intelligence["growth_indicators"])
                       + Len(intelligence["decision_makers"])) * 8)
            + Min(20, Len(intelligence["technical_pain_points"]) * 7)
            + Min(15, Len(intelligence["urgency_signals"]) * 15)
            + Min(10, Len(intelligence["budget_indicators"]) * 10))

calculate_hardware_readiness_score(company) ==
    LET intelligence == company["hardware_intelligence"]
        score0 == 0
        score1 == IF intelligence["infrastructure_needs"] # <<>>
                  THEN score0 + Min(30, Len(intelligence["infrastructure_needs"]) * 10)
                  ELSE score0
        score2 == IF intelligence["growth_indicators"] # <<>>
                  THEN score1 + Min(25, Len(intelligence["growth_indicators"]) * 8)
                  ELSE score1
        score3 == IF intelligence["technical_pain_points"] # <<>>
                  THEN score2 + Min(20, Len(intelligence["technical_pain_points"]) * 7)
                  ELSE score2
        score4 == IF intelligence["urgency_signals"] # <<>>
                  THEN score3 + Min(15, Len(intelligence["urgency_signals"]) * 15)
                  ELSE score3
        score5 == IF intelligence["budget_indicators"] # <<>>
                  THEN score4 + Min(10, Len(intelligence["budget_indicators"]) * 10)
                  ELSE score4
    IN  Min(100, score5)

(***************************************************************************)
(* SpecScore: the scorer alone, on every profile within the bounds.        *)
(***************************************************************************)
\* A category list with n entries.
Entries(n) == [i \in 1..n |-> "match " \o ToString(i)]

\* Which unweighted and context lists are filled: none, one of them, or all.
OtherFillings ==
    {{}} \cup {{c} : c \in UnweightedCategories \cup ContextCategories}
         \cup {UnweightedCategories \cup ContextCategories}

\* The profile whose weighted lists have the lengths n[c] and whose other
\* lists are filled when in `filled` (the context lists exist only then).
ProfileOf(n, filled) ==
    [k \in DOMAIN EmptyIntelligence \cup (filled \cap ContextCategories) |->
        IF k \in WeightedCategories THEN Entries(n[k])
        ELSE IF k \in UnweightedCategories \cup ContextCategories
             THEN IF k \in filled THEN Entries(MaxListLen) ELSE <<>>
        ELSE EmptyIntelligence[k]]

ScoreInit ==
    /\ fn = "_calculate_hardware_readiness_score"
    /\ \E n \in [WeightedCategories -> 0..MaxListLen], filled \in OtherFillings :
          arg = [name |-> "company 1", website |-> "https://acme.example",
                 hardware_intelligence |-> ProfileOf(n, filled)]
    /\ arg0 = arg
    /\ ret = <<>>
    /\ BatchIdle

\* One call of the scorer: it reads the profile and returns a number.
Score ==
    /\ fn = "_calculate_hardware_readiness_score"
    /\ Len(ret) < MaxRecomputations
    /\ ret' = Append(ret, calculate_hardware_readiness_score(arg))
    /\ UNCHANGED <<fn, arg, arg0, batch_vars>>

ScoreNext == Score

SpecScore == ScoreInit /\ [][ScoreNext]_vars

\* C2: the scorer returns an integer in 0..100, a second call on the same
\* category lists returns the same value, and the calls leave the profile as
\* the caller passed it.
C2_ScoreBoundedAndRepeatable ==
    fn = "_calculate_hardware_readiness_score" =>
        /\ \A i \in 1..Len(ret) : ret[i] \in 0..100
        /\ \A i, j \in 1..Len(ret) : ret[i] = ret[j]
        /\ arg = arg0

\* C2's case: the scorer ran twice on a profile whose lists are all full.
C2_Witness ==
    /\ fn = "_calculate_hardware_readiness_score"
    /\ Len(ret) = 2
    /\ \A c \in WeightedCategories :
          Len(arg["hardware_intelligence"][c]) = MaxListLen
    /\ ret[1] = 100

\* C3: the score is min(100, min(30,10a) + min(25,8b) + min(20,7c) + min(15,15d)
\* + min(10,10e)) of the five weighted lengths, whatever the other lists hold.
C3_ScoreFormula ==
    fn = "_calculate_hardware_readiness_score" =>
        LET p == arg["hardware_intelligence"]
            a == Len(p["infrastructure_needs"])
            b == Len(p["growth_indicators"])
            c == Len(p["technical_pain_points"])
            d == Len(p["urgency_signals"])
            e == Len(p["budget_indicators"])
        IN  \A i \in 1..Len(ret) :
               ret[i] = Min(100, Min(30, 10 * a) + Min(25, 8 * b) + Min(20, 7 * c)
                                 + Min(15, 15 * d) + Min(10, 10 * e))

\* C3's case: a scored profile with an empty weighted list, an uncapped one,
\* a capped one, and every other list filled.
C3_Witness ==
    /\ fn = "_calculate_hardware_readiness_score"
    /\ Len(ret) >= 1
    /\ LET p == arg["hardware_intelligence"]
       IN  /\ p["infrastructure_needs"] = <<>>
           /\ Len(p["growth_indicators"]) = 2
           /\ Len(p["technical_pain_points"]) = 3
           /\ Len(p["urgency_signals"]) = 2
           /\ p["budget_indicators"] = <<>>
           /\ "business_context" \in DOMAIN p
           /\ \A k \in UnweightedCategories \cup ContextCategories : p[k] # <<>>
    /\ ret[1] = 51

(***************************************************************************)
(* URLs, anchors and parsed documents.                                     *)
(*                                                                         *)
(* A URL is [scheme, host, path]: the scheme as written ("" when the       *)
(* string has none), the host ("" in a relative reference) and the path    *)
(* as its sequence of segments.  An anchor is [href, text, inside]: its    *)
(* href (a URL or relative reference), its visible text as a sequence of   *)
(* words, and the tag of the element that contains it.  A parsed document  *)
(* (soup) is [links, main, business, headings, body]: its anchors in       *)
(* document order, the texts of the elements the first matching main       *)
(* selector selects, per business selector the texts of the elements it    *)
(* selects, the texts of the h1/h2/h3 headings, and the text of <body>     *)
(* (has_body tells whether the document has one; `whole` is the text of    *)
(* the whole document).  NoSoup is the None a failed fetch returns as its  *)
(* soup.                                                                   *)
(***************************************************************************)
NoSoup == [none |-> TRUE]

\* str.lower() on the words of the vocabulary that are not lower case.
Lower(w) ==
    CASE w = "About" -> "about"
      [] w = "Contact" -> "contact"
      [] w = "CAREERS" -> "careers"
      [] w = "HTTP" -> "http"
      [] w = "HTTPS" -> "https"
      [] w = "Legacy" -> "legacy"
      [] w = "TEXT/HTML" -> "text/html"
      [] w = "WE" -> "we"
      [] w = "Cookie" -> "cookie"
      [] OTHER -> w

LowerAll(ws) == [i \in 1..Len(ws) |-> Lower(ws[i])]

\* An href urljoin/urlsplit cannot parse: it raises ValueError (an unclosed
\* IPv6 bracket in the host).
MalformedHost == "[::1"

\* urllib.parse.urljoin(base, href).
urljoin(base, href) ==
    IF href.scheme # "" \/ href.host # ""
    THEN [scheme |-> IF href.scheme = "" THEN base.scheme ELSE href.scheme,
          host |-> href.host, path |-> href.path]
    ELSE [scheme |-> base.scheme, host |-> base.host,
          path |-> IF href.path = <<>> THEN base.path ELSE href.path]

\* `keyword in s` for a lower-cased href: the keyword is in its host or path.
KeywordInHref(keyword, href) ==
    \/ Lower(href.host) = keyword
    \/ \E i \in 1..Len(href.path) : Lower(href.path[i]) = keyword

\* `keyword in link_text` for the lower-cased visible text.
KeywordInText(keyword, text) == \E i \in 1..Len(text) : Lower(text[i]) = keyword

\* _get_strategic_pages, lines 234-241, in the dict's iteration order.
priority_pages ==
    << [category |-> "about", keywords |-> <<"about", "company", "team", "story">>],
       [category |-> "services",
        keywords |-> <<"services", "solutions", "products", "offerings">>],
       [category |-> "technology",
        keywords |-> <<"technology", "tech-stack", "infrastructure", "platform">>],
       [category |-> "careers",
        keywords |-> <<"careers", "jobs", "hiring", "join-us", "work-with-us">>],
       [category |-> "case-studies",
        keywords |-> <<"case-studies", "portfolio", "work", "projects">>],
       [category |-> "contact", keywords |-> <<"contact", "get-in-touch", "reach-us">>] >>

(***************************************************************************)
(* _clean_text_enhanced and _extract_main_content_enhanced                 *)
(***************************************************************************)
\* re.sub of the web artifacts (line 402) on one word: what is left of it.
RemoveArtifacts(w) ==
    CASE Lower(w) \in {"cookie", "subscribe", "newsletter"} -> <<>>
      [] Lower(w) = "cookies" -> <<"s">>
      [] OTHER -> <<w>>

\* re.sub of the characters outside the kept set by a space (line 405): the
\* words one word falls into.
SplitSpecial(w) ==
    CASE w = "r&d" -> <<"r", "d">>
      [] w = "it/ops" -> <<"it", "ops">>
      [] OTHER -> <<w>>

important_short_words ==
    {"we", "us", "or", "to", "is", "it", "ai", "ml", "io", "ui", "ux", "qa", "bi"}

\* Line 402 on a text.
RECURSIVE RemoveArtifactsAll(_)
RemoveArtifactsAll(ws) ==
    IF ws = <<>> THEN <<>> ELSE RemoveArtifacts(Head(ws)) \o RemoveArtifactsAll(Tail(ws))

\* Lines 405-408 on a text: the words text.split() gives.
RECURSIVE SplitSpecialAll(_)
SplitSpecialAll(ws) ==
    IF ws = <<>> THEN <<>> ELSE SplitSpecial(Head(ws)) \o SplitSpecialAll(Tail(ws))

RECURSIVE remove_duplicate_words(_, _, _)
remove_duplicate_words(words, cleaned_words, prev_word) ==
    IF words = <<>> THEN cleaned_words
    ELSE IF Lower(Head(words)) # Lower(prev_word)
         THEN remove_duplicate_words(Tail(words), Append(cleaned_words, Head(words)),
                                     Head(words))
         ELSE remove_duplicate_words(Tail(words), cleaned_words, prev_word)

\* A cleaner that collapses the repeated words before it drops the short ones.
clean_text_enhanced_short_words_last(text) ==
    LET text2 == RemoveArtifactsAll(text)
        text3 == SplitSpecialAll(text2)
        cleaned_words == remove_duplicate_words(text3, <<>>, "")
    IN  SelectSeq(cleaned_words, LAMBDA word :
            Len(word) > 2 \/ Lower(word) \in important_short_words)

clean_text_enhanced(text) ==
    LET text2 == RemoveArtifactsAll(text)
        text3 == SplitSpecialAll(text2)
        words == SelectSeq(text3, LAMBDA word :
                     Len(word) > 2 \/ Lower(word) \in important_short_words)
    IN  remove_duplicate_words(words, <<>>, "")

RECURSIVE JoinTexts(_)
JoinTexts(texts) == IF texts = <<>> THEN <<>> ELSE Head(texts) \o JoinTexts(Tail(texts))

FirstN(s, n) == SubSeq(s, 1, Min(n, Len(s)))

RECURSIVE business_parts(_)
business_parts(per_selector) ==
    IF per_selector = <<>> THEN <<>>
    ELSE FirstN(Head(per_selector), 2) \o business_parts(Tail(per_selector))

extract_main_content_enhanced(soup) ==
    LET parts1 == IF soup.main # <<>> THEN <<JoinTexts(soup.main)>> ELSE <<>>
        parts2 == parts1 \o business_parts(soup.business)
        parts3 == parts2 \o FirstN(soup.headings, 10)
        content_parts ==
            IF parts3 = <<>>
            THEN IF soup.has_body THEN <<soup.body>> ELSE <<soup.whole>>
            ELSE parts3
    IN  JoinTexts(content_parts)

(***************************************************************************)
(* _scrape_single_page                                                     *)
(*                                                                         *)
(* What the network does to one call is net = [first, second]: the result  *)
(* of the first GET and of the retry, each [raises, content_type,          *)
(* parses, soup]; `raises` names the exception session.get or              *)
(* raise_for_status raises (None: a response), `parses` whether one of the *)
(* two parsers accepts the body.                                           *)
(***************************************************************************)
RequestExceptions == {"SSLError", "Timeout", "ConnectionError", "HTTPError"}

unwanted_elements ==
    {"script", "style", "nav", "footer", "header", "aside", "iframe", "noscript"}

\* Lines 280-285: the URL with its scheme forced to https.
force_https(url) ==
    IF Lower(url.scheme) = "" THEN [url EXCEPT !.scheme = "https"]
    ELSE IF Lower(url.scheme) = "http"
         THEN IF url.scheme = "http" THEN [url EXCEPT !.scheme = "https"] ELSE url
         ELSE url

\* A failure result that does not say why.
page_failure_without_cause(error, events) ==
    [success |-> FALSE, content |-> <<>>, soup |-> NoSoup, error |-> None,
     events |-> events]

\* Lines 302 and 325-336: the dict every failure path returns.
page_failure(error, events) ==
    [success |-> FALSE, content |-> <<>>, soup |-> NoSoup, error |-> error,
     events |-> events]

\* Lines 325-336: the failure result for an exception leaving the try body.
page_exception(e, events) ==
    page_failure(IF e = "SSLError" THEN "SSL Error: " \o e
                 ELSE IF e = "Timeout" THEN "Request timeout"
                 ELSE IF e \in RequestExceptions THEN "Request failed: " \o e
                 ELSE "Parsing failed: " \o e,
                 events)

\* A fetch that hands every response to the parser, whatever its declared type.
page_of_response_parse_anyway(response, events) ==
    IF ~response.parses THEN page_exception("ParserError", events)
    ELSE LET soup == [response.soup EXCEPT
                         !.links = SelectSeq(@, LAMBDA a : a.inside \notin unwanted_elements)]
             content == extract_main_content_enhanced(soup)
             clean_content == clean_text_enhanced(content)
         IN  [success |-> TRUE, content |-> clean_content, soup |-> soup,
              error |-> None, events |-> events]

\* Lines 299-323: what is made of a response.
page_of_response(response, events) ==
    IF Lower(response.content_type) \notin {"text/html", "text/html; charset=utf-8"}
    THEN page_failure("Not HTML content", events)
    ELSE IF ~response.parses THEN page_exception("ParserError", events)
    ELSE LET soup == [response.soup EXCEPT
                         !.links = SelectSeq(@, LAMBDA a : a.inside \notin unwanted_elements)]
             content == extract_main_content_enhanced(soup)
             clean_content == clean_text_enhanced(content)
         IN  [success |-> TRUE, content |-> clean_content, soup |-> soup,
              error |-> None, events |-> events]

\* A fetch that asks again also when the first response is not HTML.
get_with_retry_on_non_html(url, net) ==
    LET attempt == << [op |-> "sleep", url |-> url], [op |-> "get", url |-> url] >>
    IN  IF \/ net.first.raises \in RequestExceptions
           \/ (net.first.raises = None /\ net.first.content_type = "application/pdf")
        THEN [outcome |-> net.second, events |-> attempt \o attempt]
        ELSE [outcome |-> net.first, events |-> attempt]

\* A fetch that asks a third time when the retry raised too.
get_with_retry_twice(url, net) ==
    LET attempt == << [op |-> "sleep", url |-> url], [op |-> "get", url |-> url] >>
    IN  IF net.first.raises \in RequestExceptions
        THEN IF net.second.raises \in RequestExceptions
             THEN [outcome |-> net.second, events |-> attempt \o attempt \o attempt]
             ELSE [outcome |-> net.second, events |-> attempt \o attempt]
        ELSE [outcome |-> net.first, events |-> attempt]

\* A fetch that retries at once, without the backoff of line 295.
get_with_retry_without_backoff(url, net) ==
    LET attempt == << [op |-> "sleep", url |-> url], [op |-> "get", url |-> url] >>
    IN  IF net.first.raises \in RequestExceptions
        THEN [outcome |-> net.second,
              events |-> attempt \o << [op |-> "get", url |-> url] >>]
        ELSE [outcome |-> net.first, events |-> attempt]

\* Lines 288-297: the sleep and GET, once more when the first GET raises a
\* RequestException; [outcome, events] is what the last GET gave and what
\* was done.
get_with_retry(url, net) ==
    LET attempt == << [op |-> "sleep", url |-> url], [op |-> "get", url |-> url] >>
    IN  IF net.first.raises \in RequestExceptions
        THEN [outcome |-> net.second, events |-> attempt \o attempt]
        ELSE [outcome |-> net.first, events |-> attempt]

\* Lines 299-336 for what the GET gave.
page_of_outcome(got) ==
    IF got.outcome.raises = None THEN page_of_response(got.outcome, got.events)
    ELSE page_exception(got.outcome.raises, got.events)

\* Lines 279-336: urlparse raises ValueError for a URL it cannot parse, before
\* any sleep or GET, and the last handler turns it into a failure result.
scrape_single_page(url, net) ==
    IF url.host = MalformedHost THEN page_exception("ValueError", <<>>)
    ELSE page_of_outcome(get_with_retry(force_https(url), net))

(***************************************************************************)
(* Regular expressions over texts.                                         *)
(*                                                                         *)
(* A pattern is the sequence of its alternatives within the vocabulary,    *)
(* each [words, yields]: the words it matches and the string re.findall    *)
(* returns for the match (the whole match, or the captured group).         *)
(***************************************************************************)
RECURSIVE JoinWords(_)
JoinWords(ws) ==
    IF ws = <<>> THEN ""
    ELSE IF Len(ws) = 1 THEN ws[1]
    ELSE ws[1] \o " " \o JoinWords(Tail(ws))

Alt(words) == [words |-> words, yields |-> JoinWords(words)]
Cap(words, group) == [words |-> words, yields |-> group]

MatchesAt(content, i, words) ==
    /\ i + Len(words) - 1 <= Len(content)
    /\ \A j \in 1..Len(words) : content[i + j - 1] = words[j]

\* re.findall(pattern, content): the non-overlapping matches, left to right.
RECURSIVE findall_from(_, _, _)
findall_from(pattern, content, i) ==
    IF i > Len(content) THEN <<>>
    ELSE LET hits == {a \in 1..Len(pattern) : MatchesAt(content, i, pattern[a].words)}
         IN  IF hits = {} THEN findall_from(pattern, content, i + 1)
             ELSE LET a == CHOOSE a \in hits : \A b \in hits : a <= b
                  IN  <<pattern[a].yields>>
                      \o findall_from(pattern, content, i + Len(pattern[a].words))

findall(pattern, content) == findall_from(pattern, content, 1)

\* _init_hardware_patterns, lines 59-144.
infrastructure_patterns ==
    << <<Alt(<<"server", "needs">>), Alt(<<"hardware", "upgrades">>)>>,
       <<Alt(<<"need", "servers">>)>>,
       <<Alt(<<"performance", "issues">>)>>,
       <<Alt(<<"scaling", "infrastructure">>)>>,
       <<Alt(<<"legacy", "systems">>), Alt(<<"aging", "hardware">>)>> >>

growth_patterns ==
    << <<Alt(<<"hiring", "engineers">>)>>,
       <<Alt(<<"new", "office">>)>>,
       <<Alt(<<"raised">>), Alt(<<"funding">>)>>,
       <<Alt(<<"growing", "rapidly">>)>>,
       <<Alt(<<"remote", "work", "setup">>)>>,
       <<Alt(<<"20%", "growth", "in", "revenue">>)>> >>

pain_point_patterns ==
    << <<Alt(<<"slow", "systems">>)>>,
       <<Alt(<<"security", "concerns">>)>>,
       <<Alt(<<"downtime">>)>>,
       <<Alt(<<"integration", "issues">>)>>,
       <<Alt(<<"budget", "constraints">>)>>,
       <<Alt(<<"inefficient">>)>> >>

decision_maker_patterns ==
    << <<Alt(<<"cto">>), Alt(<<"it", "manager">>)>>,
       <<Alt(<<"operations", "manager">>)>>,
       <<Alt(<<"procurement">>)>>,
       <<Alt(<<"it", "spending">>)>> >>

tech_infrastructure_patterns ==
    << <<Alt(<<"aws">>)>>,
       <<Alt(<<"cloud">>)>>,
       <<Alt(<<"docker">>), Alt(<<"kubernetes">>)>>,
       <<Alt(<<"devops">>)>>,
       <<Alt(<<"database">>)>>,
       <<Alt(<<"storage">>), Alt(<<"backup">>)>>,
       <<Alt(<<"python">>)>>,
       <<Alt(<<"software", "development">>)>>,
       <<Alt(<<"security">>)>>,
       <<Alt(<<"monitoring">>)>> >>

hardware_needs_patterns ==
    << <<Alt(<<"workstations", "for">>)>>,
       <<Alt(<<"gaming", "rigs">>)>>,
       <<Alt(<<"development", "machines">>)>>,
       <<Alt(<<"cad", "workstations">>)>>,
       <<Alt(<<"networking", "equipment">>)>>,
       <<Alt(<<"backup", "solutions">>)>> >>

urgency_patterns ==
    << <<Alt(<<"urgent", "need">>)>>,
       <<Alt(<<"deadline">>)>>,
       <<Alt(<<"approved", "budget">>)>>,
       <<Alt(<<"rfp">>), Alt(<<"vendors">>)>>,
       <<Alt(<<"rollout", "planned">>)>> >>

company_scale_patterns ==
    << <<Alt(<<"50+", "employees">>)>>,
       <<Alt(<<"startup">>)>>,
       <<Alt(<<"funding">>)>>,
       <<Alt(<<"locations">>)>>,
       <<Alt(<<"global">>)>> >>

\* _extract_budget_indicators, lines 522-528: each captures the amount.
budget_patterns ==
    << <<Cap(<<"budget", "of", "5">>, "5")>>,
       <<Cap(<<"revenue", "of", "9">>, "9")>>,
       <<Cap(<<"funding", "of", "7">>, "7")>>,
       <<Cap(<<"raised", "5">>, "5")>>,
       <<Cap(<<"budget", "of", "5">>, "5"), Cap(<<"revenue", "of", "9">>, "9"),
         Cap(<<"funding", "of", "7">>, "7"), Cap(<<"raised", "5">>, "5"),
         Cap(<<"capital", "3">>, "3")>> >>

\* _extract_additional_context, lines 554-559: each captures the phrase.
phrase_patterns ==
    << <<Cap(<<"we", "help", "companies", "build", "faster", "networks">>,
             "build faster networks")>>,
       <<Cap(<<"our", "mission", "is", "to", "power", "small", "offices!">>,
             "power small offices!")>>,
       <<Cap(<<"we", "specialize", "in", "custom", "hardware", "builds">>,
             "custom hardware builds"),
         Cap(<<"we", "specialize", "in", "cad">>, "cad")>>,
       <<Cap(<<"focused", "on", "reliable", "local", "support">>,
             "reliable local support")>> >>

\* Lines 573-579, in the dict's iteration order.
industry_keywords ==
    << [industry |-> "fintech",
        keywords |-> << <<"financial">>, <<"banking">>, <<"payments">>, <<"fintech">>,
                        <<"trading">> >>],
       [industry |-> "healthcare",
        keywords |-> << <<"healthcare">>, <<"medical">>, <<"hospital">>, <<"patient">>,
                        <<"clinical">> >>],
       [industry |-> "ecommerce",
        keywords |-> << <<"ecommerce">>, <<"retail">>, <<"shopping">>, <<"marketplace">>,
                        <<"online", "store">> >>],
       [industry |-> "saas",
        keywords |-> << <<"saas">>, <<"software", "as", "a", "service">>,
                        <<"subscription">>, <<"cloud", "platform">> >>],
       [industry |-> "startup",
        keywords |-> << <<"startup">>, <<"early-stage">>, <<"seed">>, <<"series", "a">>,
                        <<"founders">> >>] >>

\* match.strip().rstrip('.,!?:;')
strip_match(match) ==
    CASE match = "power small offices!" -> "power small offices"
      [] match = "storage." -> "storage"
      [] OTHER -> match

InSeq(x, s) == \E i \in 1..Len(s) : s[i] = x

(***************************************************************************)
(* _extract_pattern_matches, _extract_budget_indicators,                   *)
(* _extract_additional_context                                             *)
(***************************************************************************)
RECURSIVE add_pattern_matches(_, _)
\* Lines 496-506: the matches of one pattern, until the break at 5 entries.
add_pattern_matches(found_matches, matches) ==
    IF found_matches = <<>> THEN matches
    ELSE LET clean_match == strip_match(Head(found_matches))
         IN  IF Len(clean_match) > 5 /\ ~InSeq(clean_match, matches)
             THEN LET matches2 == Append(matches, clean_match)
                  IN  IF Len(matches2) >= 5 THEN matches2
                      ELSE add_pattern_matches(Tail(found_matches), matches2)
             ELSE add_pattern_matches(Tail(found_matches), matches)

RECURSIVE pattern_matches_loop(_, _, _)
pattern_matches_loop(content, patterns, matches) ==
    IF patterns = <<>> THEN matches
    ELSE pattern_matches_loop(content, Tail(patterns),
             add_pattern_matches(findall(Head(patterns), content), matches))

\* A variant that returns the whole list gathered, without the cut of line 510.
extract_pattern_matches_uncut(content, patterns) ==
    pattern_matches_loop(content, patterns, <<>>)

extract_pattern_matches(content, patterns) ==
    FirstN(pattern_matches_loop(content, patterns, <<>>), 5)

RECURSIVE add_budget_matches(_, _)
\* Lines 533-538: the matches of one pattern, until the break at 3 entries.
add_budget_matches(matches, indicators) ==
    IF matches = <<>> THEN indicators
    ELSE LET indicators2 == Append(indicators, "Financial indicator: $" \o Head(matches))
         IN  IF Len(indicators2) >= 3 THEN indicators2
             ELSE add_budget_matches(Tail(matches), indicators2)

RECURSIVE budget_loop(_, _, _)
budget_loop(content, patterns, indicators) ==
    IF patterns = <<>> THEN indicators
    ELSE budget_loop(content, Tail(patterns),
             add_budget_matches(findall(Head(patterns), content), indicators))

extract_budget_indicators(content) == budget_loop(content, budget_patterns, <<>>)

RECURSIVE add_business_phrases(_, _)
\* Lines 563-568: the matches of one template, until the break at 2 entries.
add_business_phrases(matches, business_phrases) ==
    IF matches = <<>> THEN business_phrases
    ELSE LET clean_phrase == strip_match(Head(matches))
             phrases2 == IF Len(clean_phrase) > 10
                         THEN Append(business_phrases, clean_phrase)
                         ELSE business_phrases
         IN  IF Len(phrases2) >= 2 THEN phrases2
             ELSE add_business_phrases(Tail(matches), phrases2)

RECURSIVE business_loop(_, _, _)
business_loop(content, patterns, business_phrases) ==
    IF patterns = <<>> THEN business_phrases
    ELSE business_loop(content, Tail(patterns),
             add_business_phrases(findall(Head(patterns), content), business_phrases))

\* `keyword in content`
Contains(content, words) == \E i \in 1..Len(content) : MatchesAt(content, i, words)

RECURSIVE detect_industries(_, _)
detect_industries(content, table) ==
    IF table = <<>> THEN <<>>
    ELSE (IF \E k \in 1..Len(Head(table).keywords) :
                 Contains(content, Head(table).keywords[k])
          THEN <<Head(table).industry>> ELSE <<>>)
         \o detect_industries(content, Tail(table))

\* The intelligence dict after _extract_additional_context.
extract_additional_context(intelligence, content) ==
    Put(Put(intelligence, "business_context", business_loop(content, phrase_patterns, <<>>)),
        "industry_context", detect_industries(content, industry_keywords))

(***************************************************************************)
(* _extract_hardware_intelligence                                          *)
(*                                                                         *)
(* A fault is an exception raised inside the try body of                   *)
(* scrape_company_website by a callee that does not catch it:              *)
(* [at, after, msg], raised by the extractor once it has stored `after` of *)
(* its results (at = "extract") or by the scorer (at = "score"), with      *)
(* str(e) = msg.                                                           *)
(***************************************************************************)
NoFault == [at |-> "nowhere", after |-> 0, msg |-> ""]

\* Lines 434-471: the keys assigned, in order, with their pattern lists.
category_patterns ==
    << [key |-> "infrastructure_needs", patterns |-> infrastructure_patterns],
       [key |-> "growth_indicators", patterns |-> growth_patterns],
       [key |-> "technical_pain_points", patterns |-> pain_point_patterns],
       [key |-> "decision_makers", patterns |-> decision_maker_patterns],
       [key |-> "tech_stack", patterns |-> tech_infrastructure_patterns],
       [key |-> "hardware_opportunities", patterns |-> hardware_needs_patterns],
       [key |-> "urgency_signals", patterns |-> urgency_patterns],
       [key |-> "company_scale", patterns |-> company_scale_patterns] >>

RECURSIVE extraction_steps(_, _, _, _)
\* The intelligence dict after the assignments step..last of lines 434-477.
extraction_steps(intelligence, content_lower, step, last) ==
    IF step > last THEN intelligence
    ELSE LET next ==
                 IF step <= 8
                 THEN Put(intelligence, category_patterns[step].key,
                          extract_pattern_matches(content_lower,
                                                  category_patterns[step].patterns))
                 ELSE IF step = 9
                 THEN Put(intelligence, "budget_indicators",
                          extract_budget_indicators(content_lower))
                 ELSE extract_additional_context(intelligence, content_lower)
         IN  extraction_steps(next, content_lower, step + 1, last)

\* The company after the call, and the exception the call raised (None: none).
extract_hardware_intelligence(company, content, fault) ==
    LET content_lower == LowerAll(content)
        last == IF fault.at = "extract" THEN fault.after ELSE 10
    IN  [company |-> Put(company, "hardware_intelligence",
                         extraction_steps(company["hardware_intelligence"],
                                          content_lower, 1, last)),
         raised |-> IF fault.at = "extract" THEN fault.msg ELSE None]

(***************************************************************************)
(* _get_strategic_pages                                                    *)
(*                                                                         *)
(* The scan state is [pages, found_pages, scanned, raised]: the list being *)
(* built, the set of URLs added, the number of anchors the loop of line    *)
(* 247 entered, and whether an exception left the try body.                *)
(***************************************************************************)
RECURSIVE scan_keywords(_, _, _, _, _)
\* Lines 252-258: the keywords of one category against one anchor; `brk`
\* tells that the loop ended by its break.
scan_keywords(base_url, link, keywords, k, st) ==
    IF k > Len(keywords) THEN st
    ELSE IF /\ (KeywordInHref(keywords[k], link.href) \/ KeywordInText(keywords[k], link.text))
            /\ Cardinality(st.found_pages) < 4
         THEN IF link.href.host = MalformedHost THEN [st EXCEPT !.raised = TRUE]
              ELSE LET full_url == urljoin(base_url, link.href)
                   IN  IF full_url \notin st.found_pages /\ full_url # base_url
                       THEN [st EXCEPT !.found_pages = @ \cup {full_url},
                                       !.pages = Append(@, full_url)]
                       ELSE scan_keywords(base_url, link, keywords, k + 1, st)
         ELSE scan_keywords(base_url, link, keywords, k + 1, st)

\* Lines 259-262: the break conditions of the two outer loops, with the
\* exception that ends the try body.
scan_over(st) == st.raised \/ Cardinality(st.found_pages) >= 4

RECURSIVE scan_categories(_, _, _, _)
\* Lines 251-260: the categories against one anchor.
scan_categories(base_url, link, c, st) ==
    IF c > Len(priority_pages) \/ (c > 1 /\ scan_over(st)) THEN st
    ELSE scan_categories(base_url, link, c + 1,
                         scan_keywords(base_url, link, priority_pages[c].keywords, 1, st))

RECURSIVE scan_links(_, _, _, _)
\* Lines 247-262: the anchors in document order.
scan_links(base_url, links, i, st) ==
    IF i > Len(links) \/ (i > 1 /\ scan_over(st)) THEN st
    ELSE scan_links(base_url, links, i + 1,
                    scan_categories(base_url, links[i], 1, [st EXCEPT !.scanned = @ + 1]))

\* Line 223: pages = [base_url].
scan_start(base_url) ==
    [pages |-> <<base_url>>, found_pages |-> {}, scanned |-> 0, raised |-> FALSE]

\* A scan that gives up the base URL too when the homepage fetch fails.
strategic_pages_scan_empty_on_failure(base_url, homepage_data) ==
    IF ~homepage_data.success THEN [scan_start(base_url) EXCEPT !.pages = <<>>]
    ELSE scan_links(base_url, homepage_data.soup.links, 1, scan_start(base_url))

\* Lines 223-265: the list as it stands at the return, from the homepage's
\* fetch.
strategic_pages_scan(base_url, homepage_data) ==
    IF ~homepage_data.success THEN scan_start(base_url)
    ELSE scan_links(base_url, homepage_data.soup.links, 1, scan_start(base_url))

\* A selector that lists the discovered pages first and the homepage last.
pages_returned_homepage_last(st, homepage_data) ==
    [value |-> FirstN(Tail(st.pages) \o <<Head(st.pages)>>, 5), scanned |-> st.scanned,
     calls |-> <<homepage_data>>]

\* Line 267: pages[:5] is the value returned; `scanned` counts the anchors
\* examined and `calls` lists the results of the _scrape_single_page calls
\* made.
pages_returned(st, homepage_data) ==
    [value |-> FirstN(st.pages, 5), scanned |-> st.scanned, calls |-> <<homepage_data>>]

\* Lines 228-267, once the homepage is fetched.
strategic_pages_of(base_url, homepage_data) ==
    pages_returned(strategic_pages_scan(base_url, homepage_data), homepage_data)

get_strategic_pages(base_url, net) ==
    strategic_pages_of(base_url, scrape_single_page(base_url, net))

(***************************************************************************)
(* The inputs the unit specifications draw from.                           *)
(***************************************************************************)
MaxLinks == 5            \* most anchors on a homepage

AcmeUrl == [scheme |-> "https", host |-> "acme.example", path |-> <<>>]

RelativeHref(path) == [scheme |-> "", host |-> "", path |-> path]

\* Anchors: a keyword in the href, a keyword in the text only, no keyword,
\* another host, the homepage itself, an href that does not parse, keywords
\* of two categories, an anchor inside <nav>.
LinkPool ==
    { [href |-> RelativeHref(<<"About">>), text |-> <<"who", "we", "are">>, inside |-> "div"],
      [href |-> RelativeHref(<<"x">>), text |-> <<"Contact", "us">>, inside |-> "div"],
      [href |-> RelativeHref(<<"blog">>), text |-> <<"news">>, inside |-> "div"],
      [href |-> [scheme |-> "https", host |-> "other.example", path |-> <<"CAREERS">>],
       text |-> <<"apply">>, inside |-> "div"],
      [href |-> RelativeHref(<<>>), text |-> <<"our", "team">>, inside |-> "div"],
      [href |-> [scheme |-> "http", host |-> MalformedHost, path |-> <<"jobs">>],
       text |-> <<"jobs">>, inside |-> "div"],
      [href |-> RelativeHref(<<"services">>), text |-> <<"our", "work">>, inside |-> "div"],
      [href |-> RelativeHref(<<"platform">>), text |-> <<"technology">>, inside |-> "p"],
      [href |-> RelativeHref(<<"portfolio">>), text |-> <<"projects">>, inside |-> "nav"] }

\* The sequences without repetition of at most n elements of S.
RECURSIVE SeqsNoRepeat(_, _)
SeqsNoRepeat(S, n) ==
    IF n = 0 THEN {<<>>}
    ELSE LET shorter == SeqsNoRepeat(S, n - 1)
         IN  shorter \cup
             {Append(p[1], p[2]) :
                 p \in {p \in shorter \X S :
                           /\ Len(p[1]) = n - 1
                           /\ \A i \in 1..Len(p[1]) : p[1][i] # p[2]}}

\* Page texts, as sequences of words.
TextSignals ==
    <<"Legacy", "systems", "we", "are", "hiring", "engineers", "urgent", "need",
      "downtime", "raised", "5">>
TextPlain == <<"welcome", "to", "acme">>
TextUrgent == <<"urgent", "need">>

\* A homepage with the anchors `links` and some text.
SoupOf(links, text) ==
    [links |-> links, main |-> <<text>>, business |-> <<>>, headings |-> <<>>,
     has_body |-> TRUE, body |-> text, whole |-> text]

Response(soup) ==
    [raises |-> None, content_type |-> "text/html; charset=utf-8", parses |-> TRUE,
     soup |-> soup]
Raises(e) == [raises |-> e, content_type |-> "", parses |-> FALSE, soup |-> NoSoup]
PdfResponse ==
    [raises |-> None, content_type |-> "application/pdf", parses |-> FALSE,
     soup |-> NoSoup]
UnparsableResponse ==
    [raises |-> None, content_type |-> "TEXT/HTML", parses |-> FALSE, soup |-> NoSoup]

\* The network behaviours in which the call returns a failure.
FailureNets ==
    { [first |-> Raises("ConnectionError"), second |-> Raises("ConnectionError")],
      [first |-> Raises("Timeout"), second |-> Raises("Timeout")],
      [first |-> Raises("SSLError"), second |-> Raises("SSLError")],
      [first |-> Raises("HTTPError"), second |-> PdfResponse],
      [first |-> Raises("UnicodeError"), second |-> Raises("ConnectionError")],
      [first |-> PdfResponse, second |-> Raises("ConnectionError")],
      [first |-> UnparsableResponse, second |-> Raises("ConnectionError")] }

OkNet(soup) == [first |-> Response(soup), second |-> Raises("ConnectionError")]
RetryOkNet(soup) == [first |-> Raises("Timeout"), second |-> Response(soup)]

(***************************************************************************)
(* scrape_company_website                                                  *)
(*                                                                         *)
(* env = [nets, fault]: nets[1] is what the network does to the fetch of   *)
(* page selection, nets[1 + i] to the i-th fetch of the loop of line 181;  *)
(* fault is the exception a callee raises inside the try body, if any.     *)
(* The result is [raised, value, calls, all_content]: str(e) of the        *)
(* exception that leaves the call (None: it returns `value`), the results  *)
(* of the _scrape_single_page calls made, and the text handed to the       *)
(* extractor.                                                              *)
(***************************************************************************)
max_content_length == 6  \* the content budget, in words

RECURSIVE PathString(_)
PathString(path) ==
    IF path = <<>> THEN "" ELSE "/" \o Head(path) \o PathString(Tail(path))

\* f"\n--- {page_url} ---\n", one word of the buffer.
PageHeader(page_url) ==
    "--- " \o page_url.scheme \o "://" \o page_url.host \o PathString(page_url.path)
    \o " ---"

\* A loop that never takes the break of line 188.
fetch_page_without_break(acc, page_url, page_data) ==
    IF page_data.success
    THEN [all_content |->
              acc.all_content \o <<PageHeader(page_url)>> \o page_data.content,
          calls |-> Append(acc.calls, page_data), broke |-> FALSE]
    ELSE [all_content |-> acc.all_content, calls |-> Append(acc.calls, page_data),
          broke |-> FALSE]

\* Lines 182-188: one pass of the loop body, page_data being the fetch's
\* result; `broke` tells that the pass ended by the break.
fetch_page(acc, page_url, page_data) ==
    IF page_data.success
    THEN LET all_content ==
                 acc.all_content \o <<PageHeader(page_url)>> \o page_data.content
         IN  [all_content |-> all_content, calls |-> Append(acc.calls, page_data),
              broke |-> Len(all_content) > max_content_length]
    ELSE [all_content |-> acc.all_content, calls |-> Append(acc.calls, page_data),
          broke |-> FALSE]

RECURSIVE fetch_pages(_, _, _, _)
\* Lines 181-188: [all_content, calls, broke] after the loop over
\* pages_to_scrape[i..].
fetch_pages(pages_to_scrape, nets, i, acc) ==
    IF i > Len(pages_to_scrape) \/ acc.broke THEN acc
    ELSE fetch_pages(pages_to_scrape, nets, i + 1,
                     fetch_page(acc, pages_to_scrape[i],
                                scrape_single_page(pages_to_scrape[i], nets[1 + i])))

\* Lines 178-188: the loop over the pages selected.
fetch_selected(selection, nets) ==
    fetch_pages(selection.value, nets, 1,
                [all_content |-> <<>>, calls |-> selection.calls, broke |-> FALSE])

NoValue == [none |-> TRUE]

SetIntel(company, k, v) ==
    Put(company, "hardware_intelligence", Put(company["hardware_intelligence"], k, v))

\* Lines 206-208: the except clause stores str(e).
company_exception(enhanced_company, msg) == SetIntel(enhanced_company, "scraping_error", msg)

\* A pipeline that records no error when no page gave content.
company_without_content_silent(enhanced_company) == enhanced_company

\* Lines 202-204: no page gave content.
company_without_content(enhanced_company) ==
    SetIntel(enhanced_company, "scraping_error", "No content extracted from any pages")

\* Lines 195-200 and 206-208, ex being what the extractor left and raised.
company_after_extract(ex, fault) ==
    IF ex.raised # None THEN company_exception(ex.company, ex.raised)
    ELSE IF fault.at = "score" THEN company_exception(ex.company, fault.msg)
    ELSE SetIntel(ex.company, "hardware_readiness_score",
                  calculate_hardware_readiness_score(ex.company))

\* Lines 190-204, a fault included.
company_after_fetch(enhanced_company, all_content, fault) ==
    IF all_content # <<>>
    THEN LET c1 == SetIntel(enhanced_company, "scraping_success", TRUE)
             c2 == SetIntel(c1, "content_preview", FirstN(all_content, 500))
         IN  company_after_extract(extract_hardware_intelligence(c2, all_content, fault),
                                   fault)
    ELSE company_without_content(enhanced_company)

\* Lines 190-210 for the content the loop gathered.
company_of_fetched(enhanced_company, fetched, fault) ==
    [raised |-> None,
     value |-> company_after_fetch(enhanced_company, fetched.all_content, fault),
     calls |-> fetched.calls,
     all_content |-> fetched.all_content]

scrape_company_website(company, env) ==
    IF "name" \notin DOMAIN company
    THEN [raised |-> "'name'", value |-> NoValue, calls |-> <<>>,
          all_content |-> <<>>]
    ELSE IF "website" \notin DOMAIN company
    THEN [raised |-> "'website'", value |-> NoValue, calls |-> <<>>,
          all_content |-> <<>>]
    ELSE company_of_fetched(
             Put(company, "hardware_intelligence", EmptyIntelligence),
             fetch_selected(get_strategic_pages(company["website"], env.nets[1]),
                            env.nets),
             env.fault)

(***************************************************************************)
(* SpecCompany: scrape_company_website alone, on every company record and  *)
(* environment within the bounds.                                          *)
(***************************************************************************)
\* A company record as the search collaborator builds it, one with only a
\* domain, one with only a website.
CompanyRecords(k) ==
    LET name == "company " \o ToString(k)
    IN  { [name |-> name, website |-> AcmeUrl, domain |-> "acme.example"],
          [name |-> name, domain |-> "acme.example"],
          [name |-> name, website |-> AcmeUrl] }

Faults ==
    {NoFault}
    \cup [at : {"extract"}, after : 0..9, msg : {"boom", ""}]
    \cup [at : {"score"}, after : {10}, msg : {"boom", ""}]

HomeSoup ==
    SoupOf(<< [href |-> RelativeHref(<<"About">>), text |-> <<"who", "we", "are">>,
               inside |-> "div"],
              [href |-> RelativeHref(<<"services">>), text |-> <<"our", "work">>,
               inside |-> "div"] >>, TextPlain)

\* A homepage with more priority links than a selection can hold.
HomeSoupWide ==
    SoupOf(<< [href |-> RelativeHref(<<"About">>), text |-> <<"who", "we", "are">>,
               inside |-> "div"],
              [href |-> RelativeHref(<<"x">>), text |-> <<"Contact", "us">>,
               inside |-> "div"],
              [href |-> RelativeHref(<<"services">>), text |-> <<"our", "work">>,
               inside |-> "div"],
              [href |-> RelativeHref(<<"platform">>), text |-> <<"technology">>,
               inside |-> "p"],
              [href |-> RelativeHref(<<"jobs">>), text |-> <<"jobs">>,
               inside |-> "div"] >>, TextPlain)

FailNet == [first |-> Raises("ConnectionError"), second |-> Raises("Timeout")]

HomeNets ==
    {FailNet, OkNet(HomeSoup), OkNet(SoupOf(<<>>, TextSignals)),
     RetryOkNet(HomeSoupWide)}

PageNets ==
    {FailNet, OkNet(SoupOf(<<>>, <<>>)), OkNet(SoupOf(<<>>, TextPlain)),
     RetryOkNet(SoupOf(<<>>, TextSignals))}

\* The fetches of one company: the selection's, the loop's first two, and one
\* behaviour for the loop's later ones.
CompanyNets ==
    {<<home, p1, p2, rest, rest, rest>> :
        home \in HomeNets, p1 \in PageNets, p2 \in PageNets,
        rest \in {FailNet, OkNet(SoupOf(<<>>, TextPlain))}}

CompanyInit ==
    /\ fn = "scrape_company_website"
    /\ \E company \in CompanyRecords(1), nets \in CompanyNets, fault \in Faults :
          arg = [company |-> company, env |-> [nets |-> nets, fault |-> fault]]
    /\ arg0 = arg
    /\ ret = <<>>
    /\ BatchIdle

\* One call; the input record is the caller's and is not assigned to.
ScrapeCompanyWebsite ==
    /\ fn = "scrape_company_website"
    /\ ret = <<>>
    /\ ret' = <<scrape_company_website(arg.company, arg.env)>>
    /\ UNCHANGED <<fn, arg, arg0, batch_vars>>

CompanyNext == ScrapeCompanyWebsite

SpecCompany == CompanyInit /\ [][CompanyNext]_vars

\* Every list of a profile is empty (the context lists may not exist).
AllListsEmpty(intelligence) ==
    \A k \in (WeightedCategories \cup UnweightedCategories \cup ContextCategories)
             \cap DOMAIN intelligence : intelligence[k] = <<>>

\* C4: when every page fetch made for a company fails, the profile returned
\* has scraping_success false, score 0, every list empty and an error text.
C4_AllFetchesFail ==
    (/\ fn = "scrape_company_website"
     /\ ret # <<>>
     /\ ret[1].raised = None
     /\ \A i \in 1..Len(ret[1].calls) : ~ret[1].calls[i].success) =>
        LET intelligence == ret[1].value["hardware_intelligence"]
        IN  /\ intelligence["scraping_success"] = FALSE
            /\ intelligence["hardware_readiness_score"] = 0
            /\ AllListsEmpty(intelligence)
            /\ intelligence["scraping_error"] \notin {None, ""}

\* C4's case: the selection's fetch and the loop's one fetch both failed.
C4_Witness ==
    /\ fn = "scrape_company_website"
    /\ ret # <<>>
    /\ ret[1].raised = None
    /\ Len(ret[1].calls) = 2
    /\ \A i \in 1..2 : ~ret[1].calls[i].success
    /\ ret[1].value["hardware_intelligence"]["scraping_error"]
           = "No content extracted from any pages"

\* The fault of the environment was raised: the call reached the extractor.
FaultRaised ==
    /\ fn = "scrape_company_website"
    /\ ret # <<>>
    /\ ret[1].raised = None
    /\ ret[1].all_content # <<>>
    /\ arg.env.fault # NoFault

\* C6: an exception raised inside the try body of scrape_company_website
\* yields a failure profile: scraping_success false and scraping_error equal
\* to the exception's description.
C6_ExceptionGivesFailureProfile ==
    FaultRaised =>
        LET intelligence == ret[1].value["hardware_intelligence"]
        IN  /\ intelligence["scraping_success"] = FALSE
            /\ intelligence["scraping_error"] = arg.env.fault.msg

\* C7: for a record with a name and a website or a domain,
\* scrape_company_website returns a profile and raises nothing.
C7_NeverRaises ==
    (/\ fn = "scrape_company_website"
     /\ ret # <<>>
     /\ "name" \in DOMAIN arg.company
     /\ ("website" \in DOMAIN arg.company \/ "domain" \in DOMAIN arg.company)) =>
        ret[1].raised = None

(***************************************************************************)
(* scrape_multiple_companies                                               *)
(*                                                                         *)
(* arg = [companies, max_workers], the list being the caller's own dicts.  *)
(* future[i] is the future of the i-th submitted task: its state           *)
(* ("pending" in the executor's queue, "running" on a worker, "done"),     *)
(* its outcome [raised, value] once done, whether future.result timed out  *)
(* on it, and whether the loop of line 649 has handled it.                 *)
(***************************************************************************)
MaxCompanies == 3        \* longest batch
default_max_workers == 2

NoOutcome == [raised |-> None, value |-> NoValue]

\* Lines 657-671: the profile the except clause stores.
failure_intelligence(msg) == [EmptyIntelligence EXCEPT !.scraping_error = msg]

\* A collector that takes the futures as they complete.
next_future_as_completed(futures, order) ==
    LET left == {i \in 1..Len(futures) : ~futures[i].collected}
        completed == {k \in 1..Len(order) : order[k] \in left}
    IN  IF completed # {}
        THEN order[CHOOSE k \in completed : \A j \in completed : k <= j]
        ELSE CHOOSE i \in left : \A j \in left : i <= j

\* Line 649: the next future of the dict's iteration, which is the order of
\* submission (`order` is the order of completion).
next_future(futures, order) ==
    LET left == {i \in 1..Len(futures) : ~futures[i].collected}
    IN  CHOOSE i \in left : \A j \in left : i <= j

AllCollected == \A i \in 1..Len(future) : future[i].collected

\* The i-th record of a batch: as the search collaborator builds it, or with
\* only a domain (at most one record of a batch is of that kind).
BatchRecord(i, with_website) ==
    IF with_website
    THEN [name |-> "company " \o ToString(i), website |-> AcmeUrl, domain |-> "acme.example"]
    ELSE [name |-> "company " \o ToString(i), domain |-> "acme.example"]

\* What a task meets: every fetch fails; the homepage has a signal; the
\* homepage has a signal and the extractor raises.
BatchEnvs ==
    { [nets |-> [i \in 1..6 |-> FailNet], fault |-> NoFault],
      [nets |-> [i \in 1..6 |-> OkNet(SoupOf(<<>>, TextUrgent))], fault |-> NoFault],
      [nets |-> [i \in 1..6 |-> OkNet(SoupOf(<<>>, TextUrgent))],
       fault |-> [at |-> "extract", after |-> 3, msg |-> "boom"]] }

Init ==
    /\ fn = "scrape_multiple_companies"
    /\ \E n \in 1..MaxCompanies, m \in 1..default_max_workers :
          \E without_website \in 0..n :
             arg = [companies |-> [i \in 1..n |-> BatchRecord(i, i # without_website)],
                    max_workers |-> m]
    /\ arg0 = arg
    /\ ret = <<>>
    /\ future = <<>>
    /\ enhanced_companies = <<>>
    /\ bpc = "submit"
    /\ finished = <<>>

\* Lines 641-646: every company is submitted, in list order.
Submit ==
    /\ bpc = "submit"
    /\ future' = [i \in 1..Len(arg.companies) |->
                     [state |-> "pending", outcome |-> NoOutcome,
                      timed_out |-> FALSE, collected |-> FALSE]]
    /\ bpc' = "collect"
    /\ UNCHANGED <<fn, arg, arg0, ret, enhanced_companies, finished>>

\* A free worker takes the oldest queued task.
TaskStart(i) ==
    /\ bpc \in {"collect", "shutdown"}
    /\ future[i].state = "pending"
    /\ \A j \in 1..(i - 1) : future[j].state # "pending"
    /\ Cardinality({j \in 1..Len(future) : future[j].state = "running"}) < arg.max_workers
    /\ future' = [future EXCEPT ![i].state = "running"]
    /\ UNCHANGED <<fn, arg, arg0, ret, enhanced_companies, bpc, finished>>

\* What a future holds of a finished call: its value or its exception.
outcome_of(r) == [raised |-> r.raised, value |-> r.value]

\* A worker completes scrape_company_website(company): the future holds
\* what it returned or raised.
TaskFinish(i) ==
    /\ bpc \in {"collect", "shutdown"}
    /\ future[i].state = "running"
    /\ \E env \in BatchEnvs :
          future' = [future EXCEPT
                        ![i].state = "done",
                        ![i].outcome =
                            outcome_of(scrape_company_website(arg.companies[i], env))]
    /\ finished' = Append(finished, i)
    /\ UNCHANGED <<fn, arg, arg0, ret, enhanced_companies, bpc>>

\* Lines 651-652: future.result returns the task's value.
CollectResult ==
    /\ bpc = "collect"
    /\ ~AllCollected
    /\ LET i == next_future(future, finished)
       IN  /\ future[i].state = "done"
           /\ future[i].outcome.raised = None
           /\ enhanced_companies' = Append(enhanced_companies, future[i].outcome.value)
           /\ future' = [future EXCEPT ![i].collected = TRUE]
    /\ UNCHANGED <<fn, arg, arg0, ret, bpc, finished>>

\* Lines 653-672 for the exception e with str(e) = msg: the caller's dict of
\* the future's company gets the failure profile and is appended.
collect_failure(i, msg) ==
    LET company == Put(arg.companies[i], "hardware_intelligence",
                       failure_intelligence(msg))
    IN  /\ arg' = [arg EXCEPT !.companies[i] = company]
        /\ enhanced_companies' = Append(enhanced_companies, company)

\* future.result re-raises what the task raised.
CollectException ==
    /\ bpc = "collect"
    /\ ~AllCollected
    /\ LET i == next_future(future, finished)
       IN  /\ future[i].state = "done"
           /\ future[i].outcome.raised # None
           /\ collect_failure(i, future[i].outcome.raised)
           /\ future' = [future EXCEPT ![i].collected = TRUE]
    /\ UNCHANGED <<fn, arg0, ret, bpc, finished>>

\* future.result(timeout=45) raises TimeoutError(), whose str is empty, on a
\* future that is not done in time; the task itself goes on.
CollectTimeout ==
    /\ bpc = "collect"
    /\ ~AllCollected
    /\ LET i == next_future(future, finished)
       IN  /\ future[i].state # "done"
           /\ collect_failure(i, "")
           /\ future' = [future EXCEPT ![i].collected = TRUE, ![i].timed_out = TRUE]
    /\ UNCHANGED <<fn, arg0, ret, bpc, finished>>

\* The loop of line 649 is over: the with block is left.
ExitWith ==
    /\ bpc = "collect"
    /\ AllCollected
    /\ bpc' = "shutdown"
    /\ UNCHANGED <<fn, arg, arg0, ret, future, enhanced_companies, finished>>

\* Leaving the with block is executor.shutdown(wait=True): it returns once
\* every submitted task is done; then lines 674-675.
Return ==
    /\ bpc = "shutdown"
    /\ \A i \in 1..Len(future) : future[i].state = "done"
    /\ bpc' = "returned"
    /\ ret' = <<enhanced_companies>>
    /\ UNCHANGED <<fn, arg, arg0, future, enhanced_companies, finished>>

Next ==
    \/ Submit
    \/ \E i \in 1..Len(future) : TaskStart(i)
    \/ \E i \in 1..Len(future) : TaskFinish(i)
    \/ CollectResult
    \/ CollectException
    \/ CollectTimeout
    \/ ExitWith
    \/ Return

Spec == Init /\ [][Next]_vars

C5_SuccessIffNoError ==
    fn = "scrape_multiple_companies" =>
        \A i \in 1..Len(enhanced_companies) :
           LET intelligence == enhanced_companies[i]["hardware_intelligence"]
           IN  (intelligence["scraping_success"] = FALSE)
                   <=> (intelligence["scraping_error"] \notin {None, ""})

\* C8: once a task has timed out, its company is recorded as failed and the
\* batch call returns its result without waiting for that task to end.
C8_TimeoutDoesNotBlock ==
    (/\ fn = "scrape_multiple_companies"
     /\ bpc = "shutdown"
     /\ \E i \in 1..Len(future) : future[i].timed_out) =>
        /\ \A i \in 1..Len(future) :
              future[i].timed_out =>
                  enhanced_companies[i]["hardware_intelligence"]["scraping_success"] = FALSE
        /\ ENABLED Return

(***************************************************************************)
(* SpecPages: _get_strategic_pages alone, on every homepage within the     *)
(* bounds.                                                                 *)
(***************************************************************************)
\* A base URL with a path, given with the http scheme.
AcmeHomeUrl == [scheme |-> "http", host |-> "acme.example", path |-> <<"home">>]

PagesInit ==
    /\ fn = "_get_strategic_pages"
    /\ \/ \E net \in FailureNets
                \cup {OkNet(SoupOf(links, TextPlain)) :
                         links \in SeqsNoRepeat(LinkPool, MaxLinks)}
                \cup {RetryOkNet(SoupOf(links, TextPlain)) :
                         links \in SeqsNoRepeat(LinkPool, 1)} :
             arg = [base_url |-> AcmeUrl, net |-> net]
       \/ \E net \in FailureNets
                \cup {OkNet(SoupOf(links, TextPlain)) : links \in SeqsNoRepeat(LinkPool, 2)} :
             arg = [base_url |-> AcmeHomeUrl, net |-> net]
    /\ arg0 = arg
    /\ ret = <<>>
    /\ BatchIdle

GetStrategicPages ==
    /\ fn = "_get_strategic_pages"
    /\ ret = <<>>
    /\ ret' = <<get_strategic_pages(arg.base_url, arg.net)>>
    /\ UNCHANGED <<fn, arg, arg0, batch_vars>>

PagesNext == GetStrategicPages

SpecPages == PagesInit /\ [][PagesNext]_vars

\* The URLs the homepage's anchors resolve to, in document order, for the
\* anchors that are kept in the document, carry a keyword and parse.
RECURSIVE Discoverable(_, _)
Discoverable(base_url, links) ==
    IF links = <<>> THEN <<>>
    ELSE LET a == Head(links)
             hit == /\ a.inside \notin unwanted_elements
                    /\ \E c \in 1..Len(priority_pages) :
                          \E k \in 1..Len(priority_pages[c].keywords) :
                             \/ KeywordInHref(priority_pages[c].keywords[k], a.href)
                             \/ KeywordInText(priority_pages[c].keywords[k], a.text)
         IN  IF hit /\ a.href.host = MalformedHost THEN <<>>
             ELSE (IF hit THEN <<urljoin(base_url, a.href)>> ELSE <<>>)
                  \o Discoverable(base_url, Tail(links))

\* The document of the response the call was given.
ServedSoup(net) == IF net.first.raises = None THEN net.first.soup ELSE net.second.soup

\* s without the elements equal to an earlier one or to x.
RECURSIVE Distinct(_, _, _)
Distinct(s, seen, x) ==
    IF s = <<>> THEN <<>>
    ELSE IF Head(s) \in seen \/ Head(s) = x THEN Distinct(Tail(s), seen, x)
         ELSE <<Head(s)>> \o Distinct(Tail(s), seen \cup {Head(s)}, x)

\* C9: _get_strategic_pages returns between 1 and 5 URLs, the first is the
\* base URL, and the others are at most 4 pages in their discovery order.
C9_PagesBounded ==
    (fn = "_get_strategic_pages" /\ ret # <<>>) =>
        LET pages == ret[1].value
            homepage == ret[1].calls[1]
        IN  /\ Len(pages) \in 1..5
            /\ pages[1] = arg.base_url
            /\ Len(Tail(pages)) <= 4
            /\ homepage.success =>
                  Tail(pages) =
                      FirstN(Distinct(Discoverable(arg.base_url, ServedSoup(arg.net).links),
                                      {}, arg.base_url), 4)

\* C9's case: a homepage with five discoverable pages, of which four are kept.
C9_Witness ==
    /\ fn = "_get_strategic_pages"
    /\ ret # <<>>
    /\ ret[1].calls[1].success
    /\ Len(Distinct(Discoverable(arg.base_url, ServedSoup(arg.net).links), {},
                    arg.base_url)) = 5
    /\ Len(ret[1].value) = 5

\* C10: when the homepage fetch fails, _get_strategic_pages returns exactly
\* [base_url] and examines no anchor.
C10_HomepageFailure ==
    (fn = "_get_strategic_pages" /\ ret # <<>> /\ ~ret[1].calls[1].success) =>
        /\ ret[1].value = <<arg.base_url>>
        /\ ret[1].scanned = 0

\* C10's case: the homepage fetch failed after its retry.
C10_Witness ==
    /\ fn = "_get_strategic_pages"
    /\ ret # <<>>
    /\ ~ret[1].calls[1].success
    /\ Len(ret[1].calls[1].events) = 4

\* C11: every additional URL _get_strategic_pages returns is on the host of
\* base_url; an anchor to another host is never selected.
C11_SameSiteOnly ==
    (fn = "_get_strategic_pages" /\ ret # <<>>) =>
        \A i \in 2..Len(ret[1].value) : ret[1].value[i].host = arg.base_url.host

(***************************************************************************)
(* SpecFetch: _scrape_single_page alone, on every URL form and network     *)
(* behaviour of the vocabulary.                                            *)
(***************************************************************************)
\* URLs as callers write them: https, http, no scheme, upper-case schemes,
\* another scheme.
FetchUrls ==
    { AcmeUrl, AcmeHomeUrl,
      [scheme |-> "", host |-> "acme.example", path |-> <<>>],
      [scheme |-> "HTTP", host |-> "acme.example", path |-> <<>>],
      [scheme |-> "HTTPS", host |-> "acme.example", path |-> <<"home">>],
      [scheme |-> "ftp", host |-> "acme.example", path |-> <<"files">>],
      [scheme |-> "http", host |-> MalformedHost, path |-> <<>>] }

\* A response without a content-type header.
NoTypeResponse ==
    [raises |-> None, content_type |-> "", parses |-> TRUE, soup |-> NoSoup]

\* What one GET can give: an exception of session.get or raise_for_status,
\* or a response.
GetOutcomes ==
    {Raises(e) : e \in RequestExceptions \cup {"UnicodeError"}}
    \cup {PdfResponse, UnparsableResponse, NoTypeResponse,
          Response(SoupOf(<<>>, TextPlain)), Response(SoupOf(<<>>, <<>>))}

FetchInit ==
    /\ fn = "_scrape_single_page"
    /\ \E url \in FetchUrls, first \in GetOutcomes, second \in GetOutcomes :
          arg = [url |-> url, net |-> [first |-> first, second |-> second]]
    /\ arg0 = arg
    /\ ret = <<>>
    /\ BatchIdle

ScrapeSinglePage ==
    /\ fn = "_scrape_single_page"
    /\ ret = <<>>
    /\ ret' = <<scrape_single_page(arg.url, arg.net)>>
    /\ UNCHANGED <<fn, arg, arg0, batch_vars>>

FetchNext == ScrapeSinglePage

SpecFetch == FetchInit /\ [][FetchNext]_vars

\* The GET requests among the events of a call.
GetsOf(events) == SelectSeq(events, LAMBDA e : e.op = "get")

\* The content types that declare HTML, lower-cased.
HtmlTypes == {"text/html", "text/html; charset=utf-8"}

\* C12: one _scrape_single_page call issues at most two GETs, the second
\* only when the first one raised, and a failing second GET ends the call
\* with a failure result.
C12_AtMostTwoGets ==
    (fn = "_scrape_single_page" /\ ret # <<>>) =>
        LET gets == Len(GetsOf(ret[1].events))
        IN  /\ gets \in 0..2
            /\ gets = 2 => arg.net.first.raises # None
            /\ arg.net.first.raises = None => gets <= 1
            /\ gets = 0 => arg.url.host = MalformedHost
            /\ (gets = 2 /\ arg.net.second.raises # None) => ~ret[1].success

\* C12's case: the first GET timed out, the retry failed too.
C12_Witness ==
    /\ fn = "_scrape_single_page"
    /\ ret # <<>>
    /\ arg.net.first.raises = "Timeout"
    /\ arg.net.second.raises = "ConnectionError"
    /\ Len(GetsOf(ret[1].events)) = 2
    /\ ~ret[1].success
    /\ ret[1].error = "Request failed: ConnectionError"

\* C13: an SSL failure of the first GET is reported after that single GET.
C13_SslNotRetried ==
    (/\ fn = "_scrape_single_page"
     /\ ret # <<>>
     /\ GetsOf(ret[1].events) # <<>>
     /\ arg.net.first.raises = "SSLError") =>
        Len(GetsOf(ret[1].events)) = 1

\* C14: a response whose declared content type is not HTML gives a failure
\* result tagged "Not HTML content", no parsed document, and no retry.
C14_NonHtmlRejected ==
    (fn = "_scrape_single_page" /\ ret # <<>> /\ GetsOf(ret[1].events) # <<>>) =>
        /\ (/\ arg.net.first.raises = None
            /\ Lower(arg.net.first.content_type) \notin HtmlTypes) =>
               /\ ~ret[1].success
               /\ ret[1].error = "Not HTML content"
               /\ ret[1].soup = NoSoup
               /\ ret[1].content = <<>>
               /\ Len(GetsOf(ret[1].events)) = 1
        /\ (/\ arg.net.first.raises \in RequestExceptions
            /\ arg.net.second.raises = None
            /\ Lower(arg.net.second.content_type) \notin HtmlTypes) =>
               /\ ~ret[1].success
               /\ ret[1].error = "Not HTML content"
               /\ ret[1].soup = NoSoup

\* C14's case: the first GET answered with a PDF.
C14_Witness ==
    /\ fn = "_scrape_single_page"
    /\ ret # <<>>
    /\ arg.net.first = PdfResponse
    /\ ret[1].error = "Not HTML content"
    /\ Len(GetsOf(ret[1].events)) = 1

\* C18: every GET of _scrape_single_page is to an https URL.
C18_AlwaysHttps ==
    (fn = "_scrape_single_page" /\ ret # <<>>) =>
        \A i \in 1..Len(ret[1].events) :
           ret[1].events[i].op = "get" => Lower(ret[1].events[i].url.scheme) = "https"

(***************************************************************************)
(* SpecExtract: _extract_hardware_intelligence and                         *)
(* _extract_budget_indicators alone, on every text of at most MaxPhrases   *)
(* phrases of the pool.                                                    *)
(***************************************************************************)
MaxPhrases == 3          \* most phrases in a text handed to the extractors

PhrasePool ==
    { <<"budget", "of", "5">>, <<"revenue", "of", "9">>, <<"funding", "of", "7">>,
      <<"raised", "5">>, <<"capital", "3">>, <<"urgent", "need">>,
      <<"Legacy", "systems">>, <<"welcome">> }

\* The texts made of exactly n phrases of the pool.
RECURSIVE TextsOf(_)
TextsOf(n) ==
    IF n = 0 THEN {<<>>}
    ELSE {p[1] \o p[2] : p \in TextsOf(n - 1) \X PhrasePool}

ExtractInit ==
    /\ fn \in {"_extract_hardware_intelligence", "_extract_budget_indicators"}
    /\ \E n \in 0..MaxPhrases : \E content \in TextsOf(n) :
          arg = [company |-> [name |-> "company 1", website |-> AcmeUrl,
                              hardware_intelligence |-> EmptyIntelligence],
                 content |-> content]
    /\ arg0 = arg
    /\ ret = <<>>
    /\ BatchIdle

\* One call of the extractor; ret holds the company as the call leaves it.
ExtractHardwareIntelligence ==
    /\ fn = "_extract_hardware_intelligence"
    /\ ret = <<>>
    /\ ret' = <<extract_hardware_intelligence(arg.company, arg.content, NoFault)>>
    /\ UNCHANGED <<fn, arg, arg0, batch_vars>>

\* One call of the budget extractor (its patterns ignore case).
ExtractBudgetIndicators ==
    /\ fn = "_extract_budget_indicators"
    /\ ret = <<>>
    /\ ret' = <<extract_budget_indicators(LowerAll(arg.content))>>
    /\ UNCHANGED <<fn, arg, arg0, batch_vars>>

ExtractNext == ExtractHardwareIntelligence \/ ExtractBudgetIndicators

SpecExtract == ExtractInit /\ [][ExtractNext]_vars

NoDuplicates(s) == \A i, j \in 1..Len(s) : s[i] = s[j] => i = j

\* C15: after _extract_hardware_intelligence every category list, the
\* budget indicators included, has at most 5 entries, no two of them equal.
C15_ListsCappedAndDistinct ==
    (fn = "_extract_hardware_intelligence" /\ ret # <<>>) =>
        \A k \in WeightedCategories \cup UnweightedCategories :
           /\ Len(ret[1].company["hardware_intelligence"][k]) <= 5
           /\ NoDuplicates(ret[1].company["hardware_intelligence"][k])

\* C16: _extract_budget_indicators returns at most 3 entries.
C16_BudgetAtMostThree ==
    (fn = "_extract_budget_indicators" /\ ret # <<>>) => Len(ret[1]) <= 3

(***************************************************************************)
(* The HTTP session of the worker tasks.                                   *)
(***************************************************************************)
\* __init__, line 33: the one requests.Session of a scraper object.
scraper_session == "self.session"

\* Lines 644 and 291: task i is the bound method self.scrape_company_website,
\* and each of its GETs is self.session.get.
task_session(i) == scraper_session

\* C17: two tasks running at the same time never send their requests
\* through the same session.
C17_NoSharedSession ==
    fn = "scrape_multiple_companies" =>
        \A i, j \in 1..Len(future) :
           (/\ i # j
            /\ future[i].state = "running" /\ future[j].state = "running"
            /\ "website" \in DOMAIN arg.companies[i]
            /\ "website" \in DOMAIN arg.companies[j]) =>
               task_session(i) # task_session(j)

\* C20: the input records are never modified: at every point of
\* scrape_company_website and scrape_multiple_companies, and after the
\* return, each input record is as the caller passed it.
C20_InputsUnmodified ==
    fn \in {"scrape_multiple_companies", "scrape_company_website"} => arg = arg0

\* C19: when every page fetched for a company fails or gives empty text,
\* scrape_company_website returns the "no content extracted" failure:
\* scraping_success false and score 0.
C19_NoUsableTextIsFailure ==
    (/\ fn = "scrape_company_website"
     /\ ret # <<>>
     /\ ret[1].raised = None
     /\ \A i \in 1..Len(ret[1].calls) :
           ~ret[1].calls[i].success \/ ret[1].calls[i].content = <<>>) =>
        LET intelligence == ret[1].value["hardware_intelligence"]
        IN  /\ intelligence["scraping_success"] = FALSE
            /\ intelligence["scraping_error"] = "No content extracted from any pages"
            /\ intelligence["hardware_readiness_score"] = 0

(***************************************************************************)
(* The fetch loop of scrape_company_website, read from the calls and the   *)
(* buffer a call leaves (SpecCompany).                                     *)
(***************************************************************************)
\* The calls of the loop: those after the selection's own.
LoopCalls(selection, result) ==
    SubSeq(result.calls, Len(selection.calls) + 1, Len(result.calls))

\* What the first k fetches of the loop should have gathered: header and
\* text of each page fetched with success, in the order of `pages`.
RECURSIVE Gathered(_, _, _)
Gathered(pages, loop_calls, k) ==
    IF k = 0 THEN <<>>
    ELSE Gathered(pages, loop_calls, k - 1)
         \o (IF loop_calls[k].success
             THEN <<PageHeader(pages[k])>> \o loop_calls[k].content
             ELSE <<>>)

FetchedInOrder(pages, loop_calls, all_content) ==
    LET k == Len(loop_calls)
    IN  /\ k <= Len(pages)
        /\ \A j \in 1..k :
              /\ GetsOf(loop_calls[j].events) # <<>>
              /\ \A e \in 1..Len(loop_calls[j].events) :
                    loop_calls[j].events[e].url = force_https(pages[j])
        /\ all_content = Gathered(pages, loop_calls, k)
        /\ \A j \in 1..(k - 1) :
              Len(Gathered(pages, loop_calls, j)) <= max_content_length
        /\ k < Len(pages) => Len(all_content) > max_content_length

SelectionOf(input) == get_strategic_pages(input.company["website"], input.env.nets[1])

\* C21: within one scrape_company_website call the pages are fetched one
\* after another in the order _get_strategic_pages returned them, homepage
\* first; the buffer is the concatenation of the successful pages' texts
\* (each under its header) in that order, a failed fetch adds nothing, and
\* no page is fetched once the buffer is longer than max_content_length.
C21_FetchedInDiscoveryOrder ==
    (fn = "scrape_company_website" /\ ret # <<>> /\ ret[1].raised = None) =>
        /\ SelectionOf(arg).value[1] = arg.company["website"]
        /\ FetchedInOrder(SelectionOf(arg).value, LoopCalls(SelectionOf(arg), ret[1]),
                          ret[1].all_content)

\* C21's case: three pages selected, the first fetched with success, the
\* second failed, the third filled the buffer; and a call that stopped with
\* a page left unfetched.
C21_Witness ==
    /\ fn = "scrape_company_website"
    /\ ret # <<>>
    /\ ret[1].raised = None
    /\ Len(SelectionOf(arg).value) = 3
    /\ LET loop_calls == LoopCalls(SelectionOf(arg), ret[1])
       IN  /\ Len(loop_calls) = 3
           /\ loop_calls[1].success
           /\ ~loop_calls[2].success
           /\ loop_calls[3].success
           /\ Len(ret[1].all_content) > max_content_length

\* A call that left a selected page unfetched because the buffer was full.
C21_StoppedEarly ==
    /\ fn = "scrape_company_website"
    /\ ret # <<>>
    /\ ret[1].raised = None
    /\ Len(LoopCalls(SelectionOf(arg), ret[1])) < Len(SelectionOf(arg).value)

\* C22: the concatenated text handed to the signal extractor is never longer
\* than max_content_length, whatever the lengths of the pages fetched.
C22_ContentWithinBudget ==
    (/\ fn = "scrape_company_website"
     /\ ret # <<>>
     /\ ret[1].raised = None
     /\ ret[1].all_content # <<>>) =>
        Len(ret[1].all_content) <= max_content_length

\* C23: in every profile scrape_company_website returns, the stored
\* hardware_readiness_score is the value the scorer computes from the
\* category lists of that same profile, on the success, failure and
\* exception paths alike.
C23_ScoreMatchesLists ==
    (fn = "scrape_company_website" /\ ret # <<>> /\ ret[1].raised = None) =>
        ret[1].value["hardware_intelligence"]["hardware_readiness_score"]
            = calculate_hardware_readiness_score(ret[1].value)

\* The same on the paths where nothing was raised inside the try body.
C23_ScoreMatchesListsWithoutException ==
    (/\ fn = "scrape_company_website"
     /\ ret # <<>>
     /\ ret[1].raised = None
     /\ ret[1].value["hardware_intelligence"]["scraping_error"]
            \in {None, "No content extracted from any pages"}) =>
        ret[1].value["hardware_intelligence"]["hardware_readiness_score"]
            = calculate_hardware_readiness_score(ret[1].value)

(***************************************************************************)
(* SpecPatterns: _extract_pattern_matches alone, on lower-case texts (the  *)
(* caller lower-cases the content at line 430) and on pattern lists.       *)
(***************************************************************************)
MaxWords == 8            \* most words of a text handed to the matcher

\* Texts to cut sub-texts from: long and short words, repeated words, a word
\* with punctuation to trim, in pattern order and against it.
BaseTexts ==
    { <<"docker", "kubernetes", "aws", "devops", "database", "storage", "backup",
        "python", "cloud", "monitoring">>,
      <<"python", "docker", "docker", "storage", "storage.", "devops", "kubernetes",
        "database", "python", "backup">>,
      <<"monitoring", "backup", "storage", "database", "devops", "kubernetes",
        "docker", "security", "aws", "python">> }

\* The sub-texts of `text` that keep the words at the positions of `keep`.
RECURSIVE SubText(_, _, _)
SubText(text, keep, i) ==
    IF i > Len(text) THEN <<>>
    ELSE (IF i \in keep THEN <<text[i]>> ELSE <<>>) \o SubText(text, keep, i + 1)

PatternTexts ==
    {SubText(text, keep, 1) : text \in BaseTexts, keep \in SUBSET (1..MaxWords)}

\* A pattern with many alternatives first, and patterns that match again
\* what an earlier pattern matched.
wide_patterns ==
    << <<Alt(<<"docker">>), Alt(<<"kubernetes">>), Alt(<<"devops">>),
         Alt(<<"database">>), Alt(<<"storage">>), Alt(<<"storage.">>),
         Alt(<<"backup">>), Alt(<<"aws">>)>>,
       <<Alt(<<"python">>), Alt(<<"docker">>)>>,
       <<Alt(<<"cloud">>)>>,
       <<Alt(<<"monitoring">>)>> >>

PatternLists == {tech_infrastructure_patterns, wide_patterns}

PatternsInit ==
    /\ fn = "_extract_pattern_matches"
    /\ \E content \in PatternTexts, patterns \in PatternLists :
          arg = [content |-> content, patterns |-> patterns]
    /\ arg0 = arg
    /\ ret = <<>>
    /\ BatchIdle

ExtractPatternMatches ==
    /\ fn = "_extract_pattern_matches"
    /\ ret = <<>>
    /\ ret' = <<extract_pattern_matches(arg.content, arg.patterns)>>
    /\ UNCHANGED <<fn, arg, arg0, batch_vars>>

PatternsNext == ExtractPatternMatches

SpecPatterns == PatternsInit /\ [][PatternsNext]_vars

\* Every match, pattern by pattern in list order, match by match in text
\* order, trimmed.
RECURSIVE AllTrimmedMatches(_, _)
AllTrimmedMatches(content, patterns) ==
    IF patterns = <<>> THEN <<>>
    ELSE LET found == findall(Head(patterns), content)
         IN  [i \in 1..Len(found) |-> strip_match(found[i])]
             \o AllTrimmedMatches(content, Tail(patterns))

\* The entries of s longer than 5, each at its first occurrence only.
RECURSIVE FirstOccurrences(_, _)
FirstOccurrences(s, seen) ==
    IF s = <<>> THEN <<>>
    ELSE IF Len(Head(s)) > 5 /\ Head(s) \notin seen
         THEN <<Head(s)>> \o FirstOccurrences(Tail(s), seen \cup {Head(s)})
         ELSE FirstOccurrences(Tail(s), seen)

Qualifying(content, patterns) ==
    FirstOccurrences(AllTrimmedMatches(content, patterns), {})

\* C24: _extract_pattern_matches returns exactly the first 5 (or fewer, if
\* fewer exist) distinct trimmed matches longer than 5 characters, taken
\* pattern by pattern in list order and match by match in text order; a
\* later pattern never changes the list once it holds 5 entries.
C24_FirstFiveDistinctMatches ==
    (fn = "_extract_pattern_matches" /\ ret # <<>>) =>
        ret[1] = FirstN(Qualifying(arg.content, arg.patterns), 5)

\* C24's case: the fifth entry was found while an early pattern was being
\* processed and a later pattern matched something new.
C24_Witness ==
    /\ fn = "_extract_pattern_matches"
    /\ ret # <<>>
    /\ Len(ret[1]) = 5
    /\ Len(Qualifying(arg.content, arg.patterns)) > 5
    /\ Len(FirstOccurrences(AllTrimmedMatches(arg.content, FirstN(arg.patterns, 1)), {}))
           >= 5
    /\ InSeq("python", Qualifying(arg.content, arg.patterns))
    /\ ~InSeq("python", ret[1])
    /\ InSeq("storage.", arg.content)

(***************************************************************************)
(* SpecContext: _extract_additional_context alone, on lower-case texts     *)
(* made of template sentences, industry words and other words.             *)
(***************************************************************************)
ContextPool ==
    { <<"we", "help", "companies", "build", "faster", "networks">>,
      <<"our", "mission", "is", "to", "power", "small", "offices!">>,
      <<"we", "specialize", "in", "custom", "hardware", "builds">>,
      <<"we", "specialize", "in", "cad">>,
      <<"focused", "on", "reliable", "local", "support">>,
      <<"online", "store">>,
      <<"welcome">> }

\* The texts made of exactly n phrases of the pool.
RECURSIVE ContextTexts(_)
ContextTexts(n) ==
    IF n = 0 THEN {<<>>}
    ELSE {p[1] \o p[2] : p \in ContextTexts(n - 1) \X ContextPool}

ContextInit ==
    /\ fn = "_extract_additional_context"
    /\ \E n \in 0..MaxPhrases : \E content \in ContextTexts(n) :
          arg = [company |-> [name |-> "company 1", website |-> AcmeUrl,
                              hardware_intelligence |-> EmptyIntelligence],
                 content |-> content]
    /\ arg0 = arg
    /\ ret = <<>>
    /\ BatchIdle

\* One call; ret holds the intelligence dict as the call leaves it.
ExtractAdditionalContext ==
    /\ fn = "_extract_additional_context"
    /\ ret = <<>>
    /\ ret' = <<extract_additional_context(arg.company["hardware_intelligence"],
                                           arg.content)>>
    /\ UNCHANGED <<fn, arg, arg0, batch_vars>>

ContextNext == ExtractAdditionalContext

SpecContext == ContextInit /\ [][ContextNext]_vars

\* C25: the business_context list _extract_additional_context produces
\* holds at most 2 phrases, however many of the four templates match.
C25_BusinessContextAtMostTwo ==
    (fn = "_extract_additional_context" /\ ret # <<>>) =>
        Len(ret[1]["business_context"]) <= 2

(***************************************************************************)
(* SpecClean: _clean_text_enhanced alone, on texts of words in either      *)
(* case, short words, web artifacts and words with special characters.     *)
(***************************************************************************)
MaxCleanWords == 4       \* most words of a text handed to the cleaner

CleanPool ==
    {"Legacy", "legacy", "a", "we", "WE", "Cookie", "cookies", "r&d", "it/ops"}

RECURSIVE CleanTexts(_)
CleanTexts(n) ==
    IF n = 0 THEN {<<>>}
    ELSE {Append(p[1], p[2]) : p \in CleanTexts(n - 1) \X CleanPool}

CleanInit ==
    /\ fn = "_clean_text_enhanced"
    /\ \E n \in 0..MaxCleanWords : \E text \in CleanTexts(n) : arg = [text |-> text]
    /\ arg0 = arg
    /\ ret = <<>>
    /\ BatchIdle

\* One call; ret holds the tokens of the string returned.
CleanTextEnhanced ==
    /\ fn = "_clean_text_enhanced"
    /\ ret = <<>>
    /\ ret' = <<clean_text_enhanced(arg.text)>>
    /\ UNCHANGED <<fn, arg, arg0, batch_vars>>

CleanNext == CleanTextEnhanced

SpecClean == CleanInit /\ [][CleanNext]_vars

\* C26: the output of _clean_text_enhanced, read as tokens separated by
\* single spaces, has no two adjacent tokens equal ignoring case, no run of
\* whitespace (no empty token), and no token of length 2 or less outside
\* the allow-list of short tokens.
C26_CleanedTokens ==
    (fn = "_clean_text_enhanced" /\ ret # <<>>) =>
        /\ \A i \in 1..(Len(ret[1]) - 1) : Lower(ret[1][i]) # Lower(ret[1][i + 1])
        /\ \A i \in 1..Len(ret[1]) :
              /\ ret[1][i] # ""
              /\ Len(ret[1][i]) <= 2 => Lower(ret[1][i]) \in important_short_words

\* C26's case: two equal words, in different case, stood on either side of
\* a short word the cleaner drops, and one of them is left.
C26_Witness ==
    /\ fn = "_clean_text_enhanced"
    /\ ret # <<>>
    /\ arg.text = <<"Legacy", "a", "legacy", "WE">>
    /\ ret[1] = <<"Legacy", "WE">>

(***************************************************************************)
(* SpecContent: _extract_main_content_enhanced alone, on documents whose   *)
(* main container, business sections and headings are missing, present    *)
(* without text, or present with text.                                     *)
(***************************************************************************)
\* The element texts a pass can find: no element, one element without
\* text, one element with text.
MainTexts == { <<>>, << <<>> >>, << <<"legacy", "systems">> >> }
BusinessTexts == { <<>>, << << <<>> >> >>, << << <<"our", "services">> >> >> }
HeadingTexts == { <<>>, << <<>> >>, << <<"about", "acme">> >> }
OtherTexts == { <<>>, <<"welcome", "to", "acme">> }

\* A document: body.get_text() and soup.get_text() hold the text of every
\* element, the ones the passes select included.
DocumentOf(main, business, headings, other, has_body) ==
    LET everything ==
            JoinTexts(main) \o JoinTexts(business_parts(business))
            \o JoinTexts(headings) \o other
    IN  [links |-> <<>>, main |-> main, business |-> business, headings |-> headings,
         has_body |-> has_body, body |-> IF has_body THEN everything ELSE <<>>,
         whole |-> everything]

ContentInit ==
    /\ fn = "_extract_main_content_enhanced"
    /\ \E main \in MainTexts, business \in BusinessTexts, headings \in HeadingTexts,
          other \in OtherTexts, has_body \in BOOLEAN :
          arg = [soup |-> DocumentOf(main, business, headings, other, has_body)]
    /\ arg0 = arg
    /\ ret = <<>>
    /\ BatchIdle

\* One call; ret holds the words of the string returned.
ExtractMainContentEnhanced ==
    /\ fn = "_extract_main_content_enhanced"
    /\ ret = <<>>
    /\ ret' = <<extract_main_content_enhanced(arg.soup)>>
    /\ UNCHANGED <<fn, arg, arg0, batch_vars>>

ContentNext == ExtractMainContentEnhanced

SpecContent == ContentInit /\ [][ContentNext]_vars

\* The three passes found no text: every element they matched is empty.
PassesYieldedNoText(soup) ==
    /\ JoinTexts(soup.main) = <<>>
    /\ JoinTexts(business_parts(soup.business)) = <<>>
    /\ JoinTexts(FirstN(soup.headings, 10)) = <<>>

\* C27: whenever the main-container, business-section and heading passes
\* together yielded no text, the result of _extract_main_content_enhanced
\* is the whole-body text (the document's text when there is no body).
C27_BodyTextWhenPassesEmpty ==
    (/\ fn = "_extract_main_content_enhanced"
     /\ ret # <<>>
     /\ PassesYieldedNoText(arg.soup)) =>
        ret[1] = (IF arg.soup.has_body THEN arg.soup.body ELSE arg.soup.whole)

\* The same when the passes matched no element at all.
C27_BodyTextWhenNothingMatched ==
    (/\ fn = "_extract_main_content_enhanced"
     /\ ret # <<>>
     /\ arg.soup.main = <<>>
     /\ arg.soup.business = <<>>
     /\ arg.soup.headings = <<>>) =>
        ret[1] = (IF arg.soup.has_body THEN arg.soup.body ELSE arg.soup.whole)

\* C28: every GET of _scrape_single_page, the first and the retry alike, is
\* immediately preceded by a delay inside the same call.
C28_DelayBeforeEveryGet ==
    (fn = "_scrape_single_page" /\ ret # <<>>) =>
        \A i \in 1..Len(ret[1].events) :
           ret[1].events[i].op = "get" =>
              /\ i > 1
              /\ ret[1].events[i - 1].op = "sleep"

\* C28's case: the first GET raised and the retry was made after its delay.
C28_Witness ==
    /\ fn = "_scrape_single_page"
    /\ ret # <<>>
    /\ arg.net.first.raises = "ConnectionError"
    /\ Len(ret[1].events) = 4
    /\ ret[1].events[3].op = "sleep"
    /\ ret[1].events[4].op = "get"
    /\ ret[1].success

\* C29: _scrape_single_page returns a result for every URL and every
\* network or parsing outcome; success true implies error None and a parsed
\* document, success false implies empty content, no parsed document and a
\* non-empty cause string as error.
C29_ResultWellFormed ==
    (fn = "_scrape_single_page" /\ ret # <<>>) =>
        /\ DOMAIN ret[1] = {"success", "content", "soup", "error", "events"}
        /\ ret[1].success \in BOOLEAN
        /\ ret[1].success => (ret[1].error = None /\ ret[1].soup # NoSoup)
        /\ ~ret[1].success =>
              /\ ret[1].content = <<>>
              /\ ret[1].soup = NoSoup
              /\ ret[1].error \notin {None, ""}

\* C29's case: a URL that does not parse, an exception that is not a
\* RequestException, a body no parser accepts, and a page fetched with
\* success.
C29_Witness ==
    /\ fn = "_scrape_single_page"
    /\ ret # <<>>
    /\ \/ arg.url.host = MalformedHost /\ ret[1].error = "Parsing failed: ValueError"
       \/ /\ arg.net.first.raises = "UnicodeError"
          /\ ret[1].error = "Parsing failed: UnicodeError"
       \/ arg.net.first = UnparsableResponse /\ ret[1].error = "Parsing failed: ParserError"

\* Each of these outcomes is among the calls checked.
C29_UnparsableUrl ==
    /\ fn = "_scrape_single_page"
    /\ ret # <<>>
    /\ arg.url.host = MalformedHost
    /\ ret[1].error = "Parsing failed: ValueError"
    /\ ret[1].events = <<>>

\* The number of GETs issued by a sequence of _scrape_single_page calls.
RECURSIVE TotalGets(_)
TotalGets(calls) ==
    IF calls = <<>> THEN 0
    ELSE Len(GetsOf(Head(calls).events)) + TotalGets(Tail(calls))

FetchCountsBounded(selection_calls, loop_calls, base_url) ==
    /\ Len(selection_calls) <= 1
    /\ Len(loop_calls) <= 5
    /\ TotalGets(selection_calls) + TotalGets(loop_calls) <= 12
    /\ \A i \in 1..Len(selection_calls) : \A j \in 1..Len(loop_calls) :
          \A e \in 1..Len(selection_calls[i].events) :
             \A f \in 1..Len(loop_calls[j].events) :
                selection_calls[i].events[e].url = loop_calls[j].events[f].url =>
                   loop_calls[j].events[f].url = force_https(base_url)

\* C30: one scrape_company_website call makes at most 6 calls of
\* _scrape_single_page, one by the page selection and at most five by the
\* fetch loop, hence at most 12 GETs; the base URL is the only URL fetched
\* by both the selection and the loop.
C30_FetchesBounded ==
    (fn = "scrape_company_website" /\ ret # <<>>) =>
        /\ Len(ret[1].calls) <= 6
        /\ ret[1].raised = None =>
              FetchCountsBounded(SelectionOf(arg).calls,
                                 LoopCalls(SelectionOf(arg), ret[1]),
                                 arg.company["website"])

\* C30's case: six calls of two GETs each, the base URL fetched by the
\* selection and again by the loop.
C30_Witness ==
    /\ fn = "scrape_company_website"
    /\ ret # <<>>
    /\ ret[1].raised = None
    /\ Len(ret[1].calls) = 6
    /\ TotalGets(ret[1].calls) = 12
    /\ Len(SelectionOf(arg).value) = 5
    /\ ret[1].calls[1].events[2].url = ret[1].calls[2].events[2].url
====
